---- MODULE Spec2Model ----
(***************************************************************************)
(* Stein Variational Gradient Descent (numpyro-stein).                     *)
(*                                                                         *)
(*   src/numpyro_stein/util.py   the vector raveler (ravel_pytree)         *)
(*   src/numpyro/stein/stein.py  SVGD: init / get_params / update /        *)
(*                               evaluate and the Stein force calculator   *)
(*                                                                         *)
(* Three specifications share the variables below:                         *)
(*   SpecRavel  ravel_pytree and its two unravel closures                   *)
(*   SpecForce  the attractive + repulsive force of stein.py lines 70-75   *)
(*   Spec       the SVGD object: construction, init, get_params, update,   *)
(*              evaluate                                                   *)
(***************************************************************************)
EXTENDS Integers, Sequences, FiniteSets, TLC

VARIABLES
    \* ---- raveler session (SpecRavel) ----
    r_pc,       \* "start" | "raveled" | "unraveled"
    r_x,        \* the pytree handed to ravel_pytree: name -> tensor
    r_bd,       \* batch_dims
    r_flat,     \* the flat array ravel_pytree returned
    r_closure,  \* what the two closures capture: treedef, leaves_metadata
    r_kind,     \* which closure was last called: "single" | "batched"
    r_arg,      \* the array handed to that closure
    r_out,      \* what the closure returned: [ok, tree]
    \* ---- force calculator (SpecForce) ----
    f_pc,       \* "input" | "done"
    f_X,        \* particle matrix guide_particles: Seq of Seq of Int
    f_S,        \* particle_ljp_grads, one score vector per particle
    f_kern,     \* which kernel factory log_kernel_fn is
    f_force,    \* particle_grads
    \* ---- the SVGD object and its caller (Spec) ----
    pc,                   \* "constructed" | "ready" | "init_failed"
    num_stein_particles,  \* self.num_stein_particles
    num_loss_particles,   \* self.num_loss_particles
    prog,                 \* the model / guide pair: their param-site names
    guide_param_names,    \* self.guide_param_names
    constrain_fn,         \* self.constrain_fn (its inv_transforms table)
    state,                \* the SVGDState the caller holds
    call                  \* the last call of the public surface and its outcome

ravelVars == <<r_pc, r_x, r_bd, r_flat, r_closure, r_kind, r_arg, r_out>>
forceVars == <<f_pc, f_X, f_S, f_kern, f_force>>
svgdVars  == <<pc, num_stein_particles, num_loss_particles, prog,
               guide_param_names, constrain_fn, state, call>>
vars == <<ravelVars, forceVars, svgdVars>>

(***************************************************************************)
(* Arithmetic helpers                                                      *)
(***************************************************************************)
Abs(v) == IF v < 0 THEN -v ELSE v

Min(a, b) == IF a < b THEN a ELSE b

Max(a, b) == IF a > b THEN a ELSE b

RECURSIVE Pow2(_)
Pow2(e) == IF e = 0 THEN 1 ELSE 2 * Pow2(e - 1)

RECURSIVE Prod(_)
\* np.prod of a shape tuple; the empty product is 1
Prod(shape) == IF shape = <<>> THEN 1 ELSE Head(shape) * Prod(Tail(shape))

RECURSIVE SumSeq(_)
SumSeq(s) == IF s = <<>> THEN 0 ELSE Head(s) + SumSeq(Tail(s))

RECURSIVE Flatten(_)
\* concatenation of a sequence of sequences
Flatten(ss) == IF ss = <<>> THEN <<>> ELSE Head(ss) \o Flatten(Tail(ss))

(***************************************************************************)
(* Tensors.  A tensor is [ok, shape, dtype, data] with data in row-major   *)
(* order.  An int32 element is the integer itself.  A float32 element is   *)
(* held in halves (fixed point with one fractional bit): 3 stands for 1.5. *)
(* A raised exception is the tensor Err.                                   *)
(***************************************************************************)
Err == [ok |-> FALSE, shape |-> <<>>, dtype |-> "error", data |-> <<>>]

Tensor(shape, dtype, data) ==
    [ok |-> TRUE, shape |-> shape, dtype |-> dtype, data |-> data]

\* float32 carries a 24-bit significand
MantissaBits == 24

RECURSIVE F32Exp(_, _)
\* the least e with a < 2^(MantissaBits + e)
F32Exp(a, e) == IF a < Pow2(MantissaBits + e) THEN e ELSE F32Exp(a, e + 1)

\* the float32 nearest to the integer v (round half to even), as an integer
RoundF32(v) ==
    LET a == Abs(v)
        e == F32Exp(a, 0)
        u == Pow2(e)
        q == a \div u
        r == a % u
        up == (2 * r > u) \/ (2 * r = u /\ q % 2 = 1)
        m == (IF up THEN q + 1 ELSE q) * u
    IN IF v < 0 THEN -m ELSE m

\* lax.convert_element_type on one element
ConvertElem(v, from, to) ==
    IF from = to THEN v
    ELSE IF to = "float32" THEN 2 * RoundF32(v)              \* int32 -> float32
    ELSE IF v >= 0 THEN v \div 2 ELSE -((-v) \div 2)         \* float32 -> int32 truncates

\* arr.astype(dtype)
AsType(t, dtype) ==
    IF ~t.ok THEN Err
    ELSE Tensor(t.shape, dtype,
                [k \in 1..Len(t.data) |-> ConvertElem(t.data[k], t.dtype, dtype)])

\* np.reshape(t, shape) with every dimension given
Reshape(t, shape) ==
    IF ~t.ok \/ Prod(shape) # Len(t.data) THEN Err
    ELSE Tensor(shape, t.dtype, t.data)

\* shape[:n] and shape[n:] (Python slices clamp)
TakeDims(shape, n) == SubSeq(shape, 1, Min(n, Len(shape)))

DropDims(shape, n) == SubSeq(shape, Min(n, Len(shape)) + 1, Len(shape))

\* np.reshape(l, (*np.shape(l)[:batch_dims], -1))
ReshapeBatchFlat(t, batch_dims) ==
    LET b == TakeDims(t.shape, batch_dims)
    IN IF Prod(b) = 0 THEN Err
       ELSE Tensor(b \o <<Len(t.data) \div Prod(b)>>, t.dtype, t.data)

\* lax.dynamic_slice_in_dim(arr, start, size, axis): a slice larger than the
\* axis is rejected; otherwise the start index is clamped so the slice fits.
DynamicSliceInDim(arr, start, size, axis) ==
    IF ~arr.ok \/ axis >= Len(arr.shape) THEN Err
    ELSE LET dim   == arr.shape[axis + 1]
             inner == Prod(DropDims(arr.shape, axis + 1))
             outer == Prod(TakeDims(arr.shape, axis))
             s0    == Max(0, Min(start, dim - size))
         IN IF size > dim THEN Err
            ELSE Tensor([d \in 1..Len(arr.shape) |->
                            IF d = axis + 1 THEN size ELSE arr.shape[d]],
                        arr.dtype,
                        [k \in 1..(outer * size * inner) |->
                            LET o == (k - 1) \div (size * inner)
                                a == ((k - 1) % (size * inner)) \div inner
                                i == (k - 1) % inner
                            IN arr.data[(o * dim + s0 + a) * inner + i + 1]])

\* type promotion of np.concatenate over int32 / float32 operands
PromoteDtype(dtypes) == IF "float32" \in dtypes THEN "float32" ELSE "int32"

\* np.concatenate(ts, axis=-1) of tensors of equal rank and leading shape
ConcatLast(ts) ==
    LET lead == TakeDims(ts[1].shape, Len(ts[1].shape) - 1)
        rows == Prod(lead)
        dt   == PromoteDtype({ts[i].dtype : i \in 1..Len(ts)})
        cs   == [i \in 1..Len(ts) |-> AsType(ts[i], dt)]
        w(i) == ts[i].shape[Len(ts[i].shape)]
        row(i, r) == SubSeq(cs[i].data, r * w(i) + 1, (r + 1) * w(i))
    IN IF \E i \in 1..Len(ts) :
              ~ts[i].ok \/ Len(ts[i].shape) = 0
              \/ TakeDims(ts[i].shape, Len(ts[i].shape) - 1) # lead
       THEN Err
       ELSE Tensor(lead \o <<SumSeq([i \in 1..Len(ts) |-> w(i)])>>, dt,
                   Flatten([r \in 1..rows |->
                               Flatten([i \in 1..Len(ts) |-> row(i, r - 1)])]))

(***************************************************************************)
(* Pytrees.  The pytrees raveled here are dicts name -> tensor;            *)
(* tree_flatten yields the leaves in sorted key order and the treedef is   *)
(* that key order.  A name is the sequence of its characters.              *)
(***************************************************************************)
\* the names in use, in Python's string order: "a" < "ab" < "b" < "c"
KeyOrder == << <<"a">>, <<"a", "b">>, <<"b">>, <<"c">> >>

InKeys(keys) == LET Test(k) == k \in keys IN SelectSeq(KeyOrder, Test)

\* tree_flatten(pytree) -> (leaves, treedef)
TreeFlatten(pytree) ==
    LET td == InKeys(DOMAIN pytree)
    IN [leaves |-> [i \in 1..Len(td) |-> pytree[td[i]]], treedef |-> td]

\* tree_unflatten(treedef, leaves)
TreeUnflatten(treedef, leaves) ==
    [k \in {treedef[i] : i \in 1..Len(treedef)} |->
        leaves[CHOOSE i \in 1..Len(treedef) : treedef[i] = k]]

\* a closure's outcome: the rebuilt pytree, or a raised exception
Raised == [ok |-> FALSE, tree |-> <<>>]

Returned(tree) == [ok |-> TRUE, tree |-> tree]

(***************************************************************************)
(* util.py: _ravel_list and ravel_pytree                                   *)
(***************************************************************************)
\* pytree_metadata(flat, shape, event_size, dtype) of one leaf
LeafMetadata(l, batch_dims) ==
    [flat       |-> ReshapeBatchFlat(l, batch_dims),
     shape      |-> l.shape,
     event_size |-> Prod(DropDims(l.shape, batch_dims)),
     dtype      |-> l.dtype]

LeavesMetadata(leaves, batch_dims) ==
    [i \in 1..Len(leaves) |-> LeafMetadata(leaves[i], batch_dims)]

\* mutant of LeavesIdx: the cumulative sum taken without the leading 0, so
\* every leaf starts where it should end
LeavesIdxNoZero(meta) ==
    [i \in 1..(Len(meta) + 1) |->
        SumSeq([j \in 1..Min(i, Len(meta)) |-> meta[j].event_size])]

\* np.cumsum((0,) + event sizes); leaves_idx[i] of the code is LeavesIdx(..)[i+1]
LeavesIdx(meta) ==
    [i \in 1..(Len(meta) + 1) |->
        SumSeq([j \in 1..(i - 1) |-> meta[j].event_size])]

\* the list comprehension of both closures raises when one element does
ListOrRaise(ts) ==
    IF \E i \in 1..Len(ts) : ~ts[i].ok THEN [ok |-> FALSE, leaves |-> <<>>]
    ELSE [ok |-> TRUE, leaves |-> ts]

\* unravel_list(arr): slices along axis 0
unravel_list(meta, batch_dims, arr) ==
    LET idx == LeavesIdx(meta)
    IN ListOrRaise([i \in 1..Len(meta) |->
          AsType(Reshape(DynamicSliceInDim(arr, idx[i], meta[i].event_size, 0),
                         DropDims(meta[i].shape, batch_dims)),
                 meta[i].dtype)])

\* unravel_list_batched(arr): slices along axis batch_dims
unravel_list_batched(meta, batch_dims, arr) ==
    LET idx == LeavesIdx(meta)
    IN ListOrRaise([i \in 1..Len(meta) |->
          AsType(Reshape(DynamicSliceInDim(arr, idx[i], meta[i].event_size,
                                           batch_dims),
                         meta[i].shape),
                 meta[i].dtype)])

\* the flat array of _ravel_list; zero leaves give np.array([])
RavelFlat(meta) ==
    IF meta = <<>> THEN Tensor(<<0>>, "float32", <<>>)
    ELSE ConcatLast([i \in 1..Len(meta) |-> meta[i].flat])

\* ravel_pytree(pytree, batch_dims): the flat array and what the two
\* closures capture (treedef, leaves_metadata)
ravel_pytree(pytree, batch_dims) ==
    LET fl   == TreeFlatten(pytree)
        meta == LeavesMetadata(fl.leaves, batch_dims)
    IN [flat |-> RavelFlat(meta), treedef |-> fl.treedef, meta |-> meta]

\* unravel_pytree(arr)
unravel_pytree(rv, batch_dims, arr) ==
    LET ls == unravel_list(rv.meta, batch_dims, arr)
    IN IF ls.ok THEN Returned(TreeUnflatten(rv.treedef, ls.leaves)) ELSE Raised

\* unravel_pytree_batched(arr)
unravel_pytree_batched(rv, batch_dims, arr) ==
    LET ls == unravel_list_batched(rv.meta, batch_dims, arr)
    IN IF ls.ok THEN Returned(TreeUnflatten(rv.treedef, ls.leaves)) ELSE Raised

(***************************************************************************)
(* SpecRavel: a caller ravels a pytree and then calls the two closures,    *)
(* on the array ravel_pytree returned and on arrays of another length.     *)
(***************************************************************************)
MaxLeaves == 2

MaxBatch == 2

\* event (non-batch) shapes of the leaves; <<>> is a scalar per batch entry
EventShapes == {<<>>, <<1, 2>>, <<3>>}

Dtypes == {"int32", "float32"}

\* first element of a leaf; element k holds base + k - 1.  The int32 bases
\* reach past 2^24; the float32 base (in halves) gives -1.5, -1, -0.5
BaseOf(dtype) == IF dtype = "int32" THEN {-3, 16777215} ELSE {-3}

BatchShapes(batch_dims) ==
    IF batch_dims = 0 THEN {<<>>} ELSE {<<b>> : b \in 1..MaxBatch}

LeafChoices(bshape) ==
    {Tensor(bshape \o es, dt, [k \in 1..Prod(bshape \o es) |-> base + k - 1]) :
        es \in EventShapes, dt \in Dtypes, base \in {-3, 16777215}}

PytreeChoices(bshape) ==
    LET keys == {KeyOrder[i] : i \in 1..MaxLeaves}
        ok(l) == l.data = <<>> \/ l.data[1] \in BaseOf(l.dtype)
    IN UNION {[K -> {l \in LeafChoices(bshape) : ok(l)}] : K \in SUBSET keys}

NoCall == [fn |-> "none", entry |-> 0, delta |-> 0]

NoClosure == [treedef |-> <<>>, meta |-> <<>>]

ForceIdle ==
    f_pc = "idle" /\ f_X = <<>> /\ f_S = <<>> /\ f_kern = "none" /\ f_force = <<>>

SvgdIdle ==
    /\ pc = "idle"
    /\ num_stein_particles = 0
    /\ num_loss_particles = 0
    /\ prog = <<>>
    /\ guide_param_names = <<>>
    /\ constrain_fn = <<>>
    /\ state = <<>>
    /\ call = <<>>

RavelInit ==
    /\ r_pc = "start"
    /\ r_bd \in {0, 1}
    /\ \E bshape \in BatchShapes(r_bd) : r_x \in PytreeChoices(bshape)
    /\ r_flat = Err
    /\ r_closure = NoClosure
    /\ r_kind = NoCall
    /\ r_arg = Err
    /\ r_out = Raised
    /\ ForceIdle
    /\ SvgdIdle

\* length of the raveled axis of the flat array
TotalFlatSize == r_flat.shape[Len(r_flat.shape)]

\* number of batch entries of the flat array
BatchEntries == Prod(TakeDims(r_flat.shape, r_bd))

\* the flat vector of batch entry b (0-based)
FlatEntry(b) ==
    LET n == TotalFlatSize
    IN Tensor(<<n>>, r_flat.dtype, SubSeq(r_flat.data, b * n + 1, (b + 1) * n))

\* arr with its last axis cut or padded to length n
ResizeLast(arr, n) ==
    LET w    == arr.shape[Len(arr.shape)]
        rows == Prod(TakeDims(arr.shape, Len(arr.shape) - 1))
    IN Tensor(TakeDims(arr.shape, Len(arr.shape) - 1) \o <<n>>, arr.dtype,
              Flatten([r \in 1..rows |->
                  [k \in 1..n |-> IF k <= w THEN arr.data[(r - 1) * w + k] ELSE 7]]))

\* flat, unravel, unravel_batched = ravel_pytree(x, batch_dims=bd)
RavelCall ==
    /\ r_pc = "start"
    /\ LET rv == ravel_pytree(r_x, r_bd)
       IN /\ rv.flat.ok
          /\ r_flat' = rv.flat
          /\ r_closure' = [treedef |-> rv.treedef, meta |-> rv.meta]
    /\ r_pc' = "raveled"
    /\ UNCHANGED <<r_x, r_bd, r_kind, r_arg, r_out>>
    /\ UNCHANGED <<forceVars, svgdVars>>

\* unravel(flat[b]) (unravel(flat) when batch_dims = 0), or the same array
\* with delta elements more or fewer
UnravelCall ==
    /\ r_pc \in {"raveled", "unraveled"}
    /\ \E b \in 0..(BatchEntries - 1), delta \in {-1, 0, 1} :
          /\ TotalFlatSize + delta >= 0
          /\ r_arg' = ResizeLast(FlatEntry(b), TotalFlatSize + delta)
          /\ r_kind' = [fn |-> "single", entry |-> b, delta |-> delta]
          /\ r_out' = unravel_pytree(r_closure, r_bd, r_arg')
    /\ r_pc' = "unraveled"
    /\ UNCHANGED <<r_x, r_bd, r_flat, r_closure>>
    /\ UNCHANGED <<forceVars, svgdVars>>

\* unravel_batched(flat), or the same array with delta columns more or fewer
UnravelBatchedCall ==
    /\ r_pc \in {"raveled", "unraveled"}
    /\ \E delta \in {-1, 0, 1} :
          /\ TotalFlatSize + delta >= 0
          /\ r_arg' = ResizeLast(r_flat, TotalFlatSize + delta)
          /\ r_kind' = [fn |-> "batched", entry |-> 0, delta |-> delta]
          /\ r_out' = unravel_pytree_batched(r_closure, r_bd, r_arg')
    /\ r_pc' = "unraveled"
    /\ UNCHANGED <<r_x, r_bd, r_flat, r_closure>>
    /\ UNCHANGED <<forceVars, svgdVars>>

RavelNext == RavelCall \/ UnravelCall \/ UnravelBatchedCall

SpecRavel == RavelInit /\ [][RavelNext]_vars

(***************************************************************************)
(* Claims about the raveler                                                *)
(***************************************************************************)
\* batch entry b of pytree x with the batch axes stripped
EntrySlice(x, batch_dims, b) ==
    [k \in DOMAIN x |->
        LET e == Prod(DropDims(x[k].shape, batch_dims))
        IN Tensor(DropDims(x[k].shape, batch_dims), x[k].dtype,
                  SubSeq(x[k].data, b * e + 1, (b + 1) * e))]

\* a closure was called on the array ravel_pytree returned (one entry of it)
ExactCall == r_pc = "unraveled" /\ r_kind.delta = 0

RoundTripHolds ==
    /\ r_kind.fn = "batched" => r_out = Returned(r_x)
    /\ r_kind.fn = "single" => r_out = Returned(EntrySlice(r_x, r_bd, r_kind.entry))
    /\ r_bd = 0 => r_out = Returned(r_x)

Representable(x) ==
    \/ Cardinality({x[k].dtype : k \in DOMAIN x}) <= 1
    \/ \A k \in DOMAIN x :
          x[k].dtype = "int32" =>
              \A i \in 1..Len(x[k].data) : Abs(x[k].data[i]) <= Pow2(MantissaBits)

C7_MismatchRaises == (r_pc = "unraveled" /\ r_kind.delta # 0) => ~r_out.ok

(***************************************************************************)
(* stein.py lines 70-75: the force on the monolithic particles.            *)
(* guide_particles is a Seq (one per particle) of integer vectors.         *)
(***************************************************************************)
VecAdd(u, v) == [c \in 1..Len(u) |-> u[c] + v[c]]

VecScale(a, v) == [c \in 1..Len(v) |-> a * v[c]]

Dot(u, v) == SumSeq([c \in 1..Len(u) |-> u[c] * v[c]])

RECURSIVE VecSum(_, _)
\* np.sum(vs, axis=0) of a sequence of vectors of length d
VecSum(vs, d) ==
    IF vs = <<>> THEN [c \in 1..d |-> 0] ELSE VecAdd(Head(vs), VecSum(Tail(vs), d))

\* Kernel factories log_kernel_fn(guide_particles) -> log_kernel(x, y).  The
\* factory is the caller's; these three stand for it:
\*   "linear"  1 + x.y
\*   "spread"  h - |x - y|^2, the bandwidth h taken from all particles
\*   "skew"    1 + sum_c x_c^2 y_c, not symmetric in its arguments
KernelNames == {"linear", "spread", "skew"}

Bandwidth(X) == 1 + SumSeq([i \in 1..Len(X) |-> Dot(X[i], X[i])])

log_kernel(kern, X, x, y) ==
    CASE kern = "linear" -> 1 + Dot(x, y)
      [] kern = "spread" -> Bandwidth(X) - Dot(VecAdd(x, VecScale(-1, y)),
                                               VecAdd(x, VecScale(-1, y)))
      [] kern = "skew"   -> 1 + SumSeq([c \in 1..Len(x) |-> x[c] * x[c] * y[c]])

\* jax.grad(jax.partial(log_kernel, x))(y): the derivative in the second argument
GradSecond(kern, X, x, y) ==
    CASE kern = "linear" -> x
      [] kern = "spread" -> VecScale(2, VecAdd(x, VecScale(-1, y)))
      [] kern = "skew"   -> [c \in 1..Len(x) |-> x[c] * x[c]]

\* mutant of attractive_force: each neighbour's score weighted by the kernel
\* (the canonical SVGD attraction) instead of the particle's own score
attractive_force_neighbour(kern, X, S) ==
    [i \in 1..Len(X) |->
        VecSum([j \in 1..Len(X) |-> VecScale(log_kernel(kern, X, X[i], X[j]), S[j])],
               Len(S[i]))]

\* line 73: vmap over (x, x_ljp_grad) of sum_y log_kernel(x, y) * x_ljp_grad
attractive_force(kern, X, S) ==
    [i \in 1..Len(X) |->
        VecSum([j \in 1..Len(X) |-> VecScale(log_kernel(kern, X, X[i], X[j]), S[i])],
               Len(S[i]))]

\* line 74: vmap over x of sum_y grad(partial(log_kernel, x))(y)
repulsive_force(kern, X) ==
    [i \in 1..Len(X) |->
        VecSum([j \in 1..Len(X) |-> GradSecond(kern, X, X[i], X[j])], Len(X[i]))]

\* line 75: particle_grads = attractive_force + repulsive_force
particle_grads(kern, X, S) ==
    LET a == attractive_force(kern, X, S)
        r == repulsive_force(kern, X)
    IN [i \in 1..Len(X) |-> VecAdd(a[i], r[i])]

(***************************************************************************)
(* SpecForce: the force calculator applied to bounded inputs               *)
(***************************************************************************)
MaxParticles == 2

\* length of a monolithic particle vector
ParticleDims == {1, 2}

Coords == {-1, 2}

RavelIdle ==
    /\ r_pc = "idle"
    /\ r_x = <<>>
    /\ r_bd = 0
    /\ r_flat = Err
    /\ r_closure = NoClosure
    /\ r_kind = NoCall
    /\ r_arg = Err
    /\ r_out = Raised

ForceInit ==
    /\ f_pc = "input"
    /\ \E n \in 1..MaxParticles, d \in ParticleDims :
          /\ f_X \in [1..n -> [1..d -> Coords]]
          /\ f_S \in [1..n -> [1..d -> Coords]]
    /\ f_kern \in KernelNames
    /\ f_force = <<>>
    /\ RavelIdle
    /\ SvgdIdle

\* steps 3 and 4 of _svgd_loss_and_grads on the particles and their scores
ComputeForce ==
    /\ f_pc = "input"
    /\ f_force' = particle_grads(f_kern, f_X, f_S)
    /\ f_pc' = "done"
    /\ UNCHANGED <<f_X, f_S, f_kern>>
    /\ UNCHANGED <<ravelVars, svgdVars>>

ForceNext == ComputeForce

SpecForce == ForceInit /\ [][ForceNext]_vars

\* sum over all j (j = i included) of k(x_i, x_j)
KernelRowSum(i) ==
    SumSeq([j \in 1..Len(f_X) |-> log_kernel(f_kern, f_X, f_X[i], f_X[j])])

\* component c of the sum over all j of the gradient of k(x_i, .) at x_j
GradColSum(i, c) ==
    SumSeq([j \in 1..Len(f_X) |-> GradSecond(f_kern, f_X, f_X[i], f_X[j])[c]])

Split(key, num) == [i \in 1..num |-> key \o <<num, i>>]

\* Python's  a, b, ... = values : the number of targets must be len(values)
UnpackOk(values_len, targets) == values_len = targets

(***************************************************************************)
(* Parameter values.  A scalar is [num, lg]: the number num seen through   *)
(* lg applications of log (of exp when lg < 0), so that exp and log are    *)
(* inverse to each other and neither is the identity.  A parameter is a    *)
(* float32 tensor of scalars; a particle-owned one has a leading particle  *)
(* axis.                                                                   *)
(***************************************************************************)
Scalar(num) == [num |-> num, lg |-> 0]

\* biject_to(constraint): the identity for constraints.real, exp for
\* constraints.positive
biject_to(constraint) == IF constraint = "positive" THEN "exp" ELSE "identity"

\* transform(x)
Forward(transform, t) ==
    LET F(v) == IF transform = "exp" THEN [v EXCEPT !.lg = @ - 1] ELSE v
    IN Tensor(t.shape, t.dtype, [k \in 1..Len(t.data) |-> F(t.data[k])])

\* transform.inv(y)
Inverse(transform, t) ==
    LET F(v) == IF transform = "exp" THEN [v EXCEPT !.lg = @ + 1] ELSE v
    IN Tensor(t.shape, t.dtype, [k \in 1..Len(t.data) |-> F(t.data[k])])

\* transform_fn(inv_transforms, params)
transform_fn(inv_transforms, params) ==
    [k \in DOMAIN params |->
        IF k \in DOMAIN inv_transforms THEN Forward(inv_transforms[k], params[k])
        ELSE params[k]]

None == [some |-> FALSE]

Some(v) == [some |-> TRUE, val |-> v]

(***************************************************************************)
(* The model / guide pair.  A trace is a sequence of sites                 *)
(* [name, type, constraint, value].  Both programs sample the latent "z";  *)
(* prog names the param sites each of them declares.                       *)
(***************************************************************************)
ParamNames == {<<"a">>, <<"b">>, <<"a", "b">>}

Programs == [model_params : SUBSET ParamNames, guide_params : SUBSET ParamNames]

\* the constraint a site is declared with
ConstraintOf(name) == IF name = <<"b">> THEN "positive" ELSE "real"

NameCode(name) == CHOOSE i \in 1..Len(KeyOrder) : KeyOrder[i] = name

ParamSite(name) ==
    [name |-> name, type |-> "param", constraint |-> ConstraintOf(name),
     value |-> Tensor(<<>>, "float32", <<Scalar(NameCode(name))>>)]

SampleSite(name) ==
    [name |-> name, type |-> "sample", constraint |-> "real",
     value |-> Tensor(<<>>, "float32", <<Scalar(0)>>)]

\* handlers.trace(model_init).get_trace(...)
ModelTrace(p) ==
    LET ps == InKeys(p.model_params)
    IN [i \in 1..Len(ps) |-> ParamSite(ps[i])] \o <<SampleSite(<<"z">>)>>

\* handlers.trace(guide_init).get_trace(...)
GuideTrace(p) ==
    LET ps == InKeys(p.guide_params)
    IN [i \in 1..Len(ps) |-> ParamSite(ps[i])] \o <<SampleSite(<<"z">>)>>

TraceNames(trace) == {trace[i].name : i \in 1..Len(trace)}

\* self.guide.find_params(particle_seeds, ...): leaves in guide.init_params one
\* constrained value per particle for every param site of the guide
FindParams(p, n) ==
    [name \in p.guide_params |->
        Tensor(<<n>>, "float32", [i \in 1..n |-> Scalar(10 * i + NameCode(name))])]

\* dict.get(key, default)
DictGet(d, key, default) == IF key \in DOMAIN d THEN d[key] ELSE default

\* d[key] = value
DictSet(d, key, value) ==
    [k \in DOMAIN d \cup {key} |-> IF k = key THEN value ELSE d[k]]

\* set.update(iterable) with a str: every character is added as an element
SetUpdate(set, name) == set \cup {<<name[i]>> : i \in 1..Len(name)}

RECURSIVE InitLoop(_, _, _, _)
\* lines 99-111: the loop over the sites of the model trace, then of the
\* guide trace; acc is (params, inv_transforms, guide_param_names)
InitLoop(sites, model_trace, init_params, acc) ==
    IF sites = <<>> THEN acc
    ELSE LET site == Head(sites)
             transform == biject_to(site.constraint)
             pval == DictGet(init_params, site.name, site.value)
         IN InitLoop(Tail(sites), model_trace, init_params,
               IF site.type = "param"
               THEN [params |-> DictSet(acc.params, site.name,
                                        Inverse(transform, pval)),
                     inv_transforms |-> DictSet(acc.inv_transforms, site.name,
                                                transform),
                     guide_param_names |->
                         IF site.name \notin TraceNames(model_trace)
                         THEN SetUpdate(acc.guide_param_names, site.name)
                         ELSE acc.guide_param_names]
               ELSE acc)

\* the optimizer, a black box: init, get_params, update
optim_init(params) == [params |-> params, step |-> 0]

optim_get_params(optim_state) == optim_state.params

optim_update(grads, optim_state) ==
    [params |-> [k \in DOMAIN optim_state.params |->
                    IF k \in DOMAIN grads
                    THEN Tensor(optim_state.params[k].shape, "float32",
                            [i \in 1..Len(optim_state.params[k].data) |->
                                [optim_state.params[k].data[i] EXCEPT
                                    !.num = @ - grads[k].data[i].num]])
                    ELSE optim_state.params[k]],
     step |-> optim_state.step + 1]

SVGDState(optim_state, rng_key) == [optim_state |-> optim_state, rng_key |-> rng_key]

\* SVGD.init(rng_key): what it raises or returns, and what it assigns to self
init(rng_key, p, n) ==
    LET k3          == Split(rng_key, 3)
        model_seed  == k3[2]
        guide_seed  == k3[3]
        model_trace == ModelTrace(p)
        guide_trace == GuideTrace(p)
        keys        == Split(k3[1], 1 + n)
        acc         == InitLoop(model_trace \o guide_trace, model_trace,
                                FindParams(p, n),
                                [params |-> <<>>, inv_transforms |-> <<>>,
                                 guide_param_names |-> {}])
    IN IF ~UnpackOk(Len(keys), 2)
       THEN \* line 97: rng_key, particle_seeds = <1 + n keys>
            [raised |-> "ValueError", at |-> 97,
             seeds |-> [model |-> model_seed, guide |-> guide_seed, particles |-> <<>>],
             guide_param_names |-> None, constrain_fn |-> None, ret |-> None]
       ELSE [raised |-> "", at |-> 0,
             seeds |-> [model |-> model_seed, guide |-> guide_seed,
                        particles |-> <<keys[2]>>],
             guide_param_names |-> Some(acc.guide_param_names),
             constrain_fn |-> Some(acc.inv_transforms),
             ret |-> Some(SVGDState(optim_init(acc.params), keys[1]))]

\* the object's fields that the calls below read
Self ==
    [guide_param_names |-> guide_param_names, constrain_fn |-> constrain_fn,
     num_stein_particles |-> num_stein_particles,
     num_loss_particles |-> num_loss_particles]

\* self.constrain_fn(params) = transform_fn(inv_transforms, params)
Constrain(self, params) == transform_fn(self.constrain_fn.val, params)

\* ravel_pytree returns (flat, unravel_pytree, unravel_pytree_batched)
RavelPytreeReturns == 3

\* line 48 unpacks it into  guide_particles, unravel_pytree
Line48Targets == 2

\* lines 53 and 61-67: the keys one step derives from its step key: one per
\* particle, per particle one per draw (the particle's own key when
\* num_loss_particles = 1), per draw a model seed and a guide seed
StepKeys(rng_key, n, m) ==
    LET particle == Split(rng_key, n)
        draws(i) == IF m = 1 THEN <<particle[i]>> ELSE Split(particle[i], m)
    IN [particle |-> particle,
        draw |-> [i \in 1..n |-> draws(i)],
        seed |-> [i \in 1..n |-> [d \in 1..Len(draws(i)) |-> Split(draws(i)[d], 2)]]]

NoStepKeys == [particle |-> <<>>, draw |-> <<>>, seed |-> <<>>]

\* lines 66-67: jfp_fn vmaps log_joint_prob over the num_stein_particles keys,
\* so its output has one entry per particle
JfpOutShape(n) == <<n>>

\* jax.value_and_grad(f)(x) accepts only a scalar-valued f
ValueAndGradOk(out_shape) == out_shape = <<>>

\* SVGD._svgd_loss_and_grads(rng_key, unconstr_params)
loss_and_grads(self, rng_key, unconstr_params) ==
    LET gpn == self.guide_param_names.val
        model_uparams == [k \in {q \in DOMAIN unconstr_params : q \notin gpn} |->
                             unconstr_params[k]]
        guide_uparams == [k \in {q \in DOMAIN unconstr_params : q \in gpn} |->
                             unconstr_params[k]]
        rv    == ravel_pytree(guide_uparams, 1)
        split == [model |-> DOMAIN model_uparams, guide |-> DOMAIN guide_uparams]
    IN IF ~rv.flat.ok \/ ~UnpackOk(RavelPytreeReturns, Line48Targets)
       THEN \* line 48: the concatenation fails, or three values meet two targets
            [raised |-> "ValueError", at |-> 48, split |-> split,
             step_keys |-> NoStepKeys, loss |-> None, grads |-> None]
       ELSE \* line 68: value_and_grad of jfp_fn, whose output is one value per
            \* particle and never the scalar it requires
            [raised |-> IF ValueAndGradOk(JfpOutShape(self.num_stein_particles))
                        THEN "" ELSE "TypeError",
             at |-> 68, split |-> split,
             step_keys |-> StepKeys(rng_key, self.num_stein_particles,
                                    self.num_loss_particles),
             loss |-> None, grads |-> None]

\* SVGD.get_params(state)
get_params(self, st) == Constrain(self, optim_get_params(st.optim_state))

\* SVGD.update(state): what is handed to the force calculator (fc), and what
\* the call raises or returns
update(self, st) ==
    LET k2           == Split(st.rng_key, 2)
        rng_key      == k2[1]
        rng_key_step == k2[2]
        params       == optim_get_params(st.optim_state)
        lg           == loss_and_grads(self, rng_key_step, params)
    IN [fc |-> [rng_key |-> rng_key_step, params |-> params],
        raised |-> lg.raised, at |-> lg.at, split |-> lg.split,
        step_keys |-> lg.step_keys, loss |-> lg.loss, grads |-> lg.grads,
        state |-> IF lg.raised = ""
                  THEN Some(SVGDState(optim_update(lg.grads.val, st.optim_state),
                                      rng_key))
                  ELSE None]

\* SVGD.evaluate(state)
evaluate(self, st) ==
    LET k2           == Split(st.rng_key, 2)
        rng_key_eval == k2[2]
        params       == get_params(self, st)
        lg           == loss_and_grads(self, rng_key_eval, params)
    IN [fc |-> [rng_key |-> rng_key_eval, params |-> params],
        raised |-> lg.raised, at |-> lg.at, split |-> lg.split,
        step_keys |-> lg.step_keys, loss |-> lg.loss, grads |-> lg.grads,
        state |-> None]

(***************************************************************************)
(* Spec: an SVGD object is constructed, init is called once, and the       *)
(* caller then calls get_params, update and evaluate on the state it       *)
(* holds, keeping the state an update returns.                             *)
(***************************************************************************)
MaxSteps == 2

Seeds == {0, 1}

\* the default of num_loss_particles (which SVGD.__init__ also accepts as 1)
DefaultLossParticles == 2

\* The record of a call: what it was given (arg), what it handed to the force
\* calculator (fc), the keys it derived, what it raised or returned.  For the
\* caller's comparison it also notes the object's fields as they were when the
\* call was made (self) and what update would have returned had it been called
\* instead (update_instead).
NoCallYet ==
    [op |-> "none", raised |-> "", at |-> 0, arg |-> None, fc |-> None,
     seeds |-> None, step_keys |-> NoStepKeys, loss |-> None, grads |-> None,
     ret |-> None, self |-> None, update_instead |-> None]

\* SVGD.__init__
SvgdInit ==
    /\ pc = "constructed"
    /\ num_stein_particles \in 1..MaxParticles
    /\ num_loss_particles \in {1, DefaultLossParticles}
    /\ prog \in Programs
    /\ guide_param_names = None
    /\ constrain_fn = None
    /\ state = None
    /\ call = NoCallYet
    /\ RavelIdle
    /\ ForceIdle

\* state = svgd.init(rng_key)
InitCall ==
    /\ pc = "constructed"
    /\ \E seed \in Seeds :
          LET r == init(<<seed>>, prog, num_stein_particles)
          IN /\ pc' = IF r.raised = "" THEN "ready" ELSE "init_failed"
             /\ guide_param_names' = r.guide_param_names
             /\ constrain_fn' = r.constrain_fn
             /\ state' = r.ret
             /\ call' = [NoCallYet EXCEPT !.op = "init", !.raised = r.raised,
                                          !.at = r.at, !.seeds = Some(r.seeds),
                                          !.ret = r.ret]
    /\ UNCHANGED <<num_stein_particles, num_loss_particles, prog>>
    /\ UNCHANGED <<ravelVars, forceVars>>

\* svgd.get_params(state)
GetParamsCall ==
    /\ pc = "ready"
    /\ call' = [NoCallYet EXCEPT !.op = "get_params", !.arg = state,
                                 !.ret = Some(get_params(Self, state.val)),
                                 !.self = Some(Self),
                                 !.update_instead = Some(update(Self, state.val))]
    /\ UNCHANGED <<pc, num_stein_particles, num_loss_particles, prog,
                   guide_param_names, constrain_fn, state>>
    /\ UNCHANGED <<ravelVars, forceVars>>

\* state, loss = svgd.update(state)
UpdateCall ==
    /\ pc = "ready"
    /\ state.val.optim_state.step < MaxSteps
    /\ LET r == update(Self, state.val)
       IN /\ state' = IF r.raised = "" THEN r.state ELSE state
          /\ call' = [NoCallYet EXCEPT !.op = "update", !.arg = state,
                         !.raised = r.raised, !.at = r.at, !.fc = Some(r.fc),
                         !.step_keys = r.step_keys, !.loss = r.loss,
                         !.grads = r.grads, !.ret = r.state]
    /\ UNCHANGED <<pc, num_stein_particles, num_loss_particles, prog,
                   guide_param_names, constrain_fn>>
    /\ UNCHANGED <<ravelVars, forceVars>>

\* mutant of EvaluateCall: evaluate advances the key of the caller's state the
\* way update does
EvaluateCallAdvancing ==
    /\ pc = "ready"
    /\ LET r == evaluate(Self, state.val)
       IN call' = [NoCallYet EXCEPT !.op = "evaluate", !.arg = state,
                      !.raised = r.raised, !.at = r.at, !.fc = Some(r.fc),
                      !.step_keys = r.step_keys, !.loss = r.loss,
                      !.grads = r.grads, !.ret = r.loss,
                      !.self = Some(Self),
                      !.update_instead = Some(update(Self, state.val))]
    /\ state' = Some([state.val EXCEPT !.rng_key = Split(@, 2)[1]])
    /\ UNCHANGED <<pc, num_stein_particles, num_loss_particles, prog,
                   guide_param_names, constrain_fn>>
    /\ UNCHANGED <<ravelVars, forceVars>>

\* loss = svgd.evaluate(state)
EvaluateCall ==
    /\ pc = "ready"
    /\ LET r == evaluate(Self, state.val)
       IN call' = [NoCallYet EXCEPT !.op = "evaluate", !.arg = state,
                      !.raised = r.raised, !.at = r.at, !.fc = Some(r.fc),
                      !.step_keys = r.step_keys, !.loss = r.loss,
                      !.grads = r.grads, !.ret = r.loss,
                      !.self = Some(Self),
                      !.update_instead = Some(update(Self, state.val))]
    /\ UNCHANGED <<pc, num_stein_particles, num_loss_particles, prog,
                   guide_param_names, constrain_fn, state>>
    /\ UNCHANGED <<ravelVars, forceVars>>

Next == InitCall \/ GetParamsCall \/ UpdateCall \/ EvaluateCall

Spec == SvgdInit /\ [][Next]_vars

(***************************************************************************)
(* Claims about the SVGD object                                            *)
(***************************************************************************)
\* names of the param sites of either trace
DiscoveredParams == prog.model_params \cup prog.guide_params

\* the names line 45 / line 46 send to model_uparams / guide_uparams
SplitModel == {k \in DOMAIN state.val.optim_state.params : k \notin guide_param_names.val}

SplitGuide == {k \in DOMAIN state.val.optim_state.params : k \in guide_param_names.val}

\* C2 as stated: after init the particle-owned name set is exactly the names of
\* the param sites absent from the model trace, the model-owned set exactly the
\* param sites present in it, whatever the length of the names; the two are
\* disjoint and together are all discovered param sites, and the split of
\* loss_and_grads follows them.
C2_Partition ==
    pc = "ready" =>
        /\ guide_param_names.val = prog.guide_params \ prog.model_params
        /\ SplitGuide = prog.guide_params \ prog.model_params
        /\ SplitModel = prog.model_params
        /\ SplitGuide \cap SplitModel = {}
        /\ SplitGuide \cup SplitModel = DiscoveredParams

\* the log-joint of particle i under the parameters handed to the force
\* calculator (the evaluator is a collaborator; this stands for it)
LogJoint(params, i) ==
    SumSeq([j \in 1..Len(KeyOrder) |->
        IF KeyOrder[j] \in DOMAIN params
        THEN params[KeyOrder[j]].data[Min(i, Len(params[KeyOrder[j]].data))].num
        ELSE 0])

\* C4 as stated: the loss update and evaluate return is one scalar, the negated
\* mean over the particles of the per-particle log-joint; never a vector.
C4_LossIsNegatedMean ==
    call.op \in {"update", "evaluate"} =>
        /\ call.raised = ""
        /\ call.loss.some
        /\ call.loss.val.shape = <<>>
        /\ num_stein_particles * call.loss.val.data[1] =
              -SumSeq([i \in 1..num_stein_particles |->
                          LogJoint(call.fc.val.params, i)])

\* C5 as stated: for every num_stein_particles >= 1 init completes and derives a
\* model sub-key, a guide sub-key and exactly num_stein_particles per-particle
\* sub-keys, pairwise distinct, and the key of the returned state is none of them.
C5_InitKeys ==
    call.op = "init" =>
        /\ call.raised = ""
        /\ LET sd == call.seeds.val
               ks == {sd.model, sd.guide} \cup {sd.particles[i] : i \in 1..Len(sd.particles)}
           IN /\ Len(sd.particles) = num_stein_particles
              /\ Cardinality(ks) = 2 + num_stein_particles
              /\ call.ret.some
              /\ call.ret.val.rng_key \notin ks

\* what update would return for the state the caller holds
UpdateResult == update(Self, state.val)

\* C6: evaluate and get_params leave the caller's state, the recorded partition
\* and the constrain function as they were, so that update on the state returns
\* what it would have returned without them.
C6_EvaluateLeavesStateAlone ==
    call.op \in {"evaluate", "get_params"} =>
        /\ state = call.arg
        /\ Self = call.self.val
        /\ UpdateResult = call.update_instead.val

\* C6 witness: evaluate has been called on a state init produced, for a guide
\* with a positive-constrained particle-owned site.
C6_Witness ==
    /\ pc = "ready"
    /\ call.op = "evaluate"
    /\ call.arg = state
    /\ <<"b">> \in guide_param_names.val
    /\ UpdateResult.fc.rng_key = call.fc.val.rng_key

\* C8 as stated: the gradient dictionary has the key set of unconstrained_params
\* and every particle-owned entry the shape of its parameter, the leading
\* particle axis of size num_stein_particles retained.
C8_GradientLayout ==
    call.op \in {"update", "evaluate"} =>
        /\ call.grads.some
        /\ DOMAIN call.grads.val = DOMAIN call.fc.val.params
        /\ \A k \in SplitGuide :
              /\ call.grads.val[k].shape = call.fc.val.params[k].shape
              /\ call.grads.val[k].shape[1] = num_stein_particles

\* C9 as stated: evaluate hands the force calculator the step key and the
\* unconstrained parameter values update hands it for the same state, whatever
\* the constraints of the sites, and returns the loss update returns.
C9_EvaluateAgreesWithUpdate ==
    call.op = "evaluate" =>
        /\ call.fc.val.rng_key = UpdateResult.fc.rng_key
        /\ call.fc.val.params = UpdateResult.fc.params
        /\ call.raised = UpdateResult.raised
        /\ call.loss = UpdateResult.loss

\* every key one step derives from its step key
AllStepKeys(sk) ==
    {sk.particle[i] : i \in 1..Len(sk.particle)}
    \cup UNION {{sk.draw[i][d] : d \in 1..Len(sk.draw[i])} : i \in 1..Len(sk.draw)}
    \cup UNION {UNION {{sk.seed[i][d][1], sk.seed[i][d][2]} :
                          d \in 1..Len(sk.seed[i])} : i \in 1..Len(sk.seed)}

\* C10 as stated: each update splits the carried key into the key of the new
\* state and a step key for the force calculator; the step key is no carried key,
\* and the per-particle keys, per-draw keys and model / guide seeds of the step
\* are derived from it and pairwise distinct.
C10_KeyThreading ==
    call.op = "update" =>
        /\ call.raised = ""
        /\ call.ret.some
        /\ state = call.ret
        /\ state.val.rng_key = Split(call.arg.val.rng_key, 2)[1]
        /\ call.fc.val.rng_key = Split(call.arg.val.rng_key, 2)[2]
        /\ call.fc.val.rng_key \notin {state.val.rng_key, call.arg.val.rng_key}
        /\ Len(call.step_keys.particle) = num_stein_particles
        /\ call.fc.val.rng_key \notin AllStepKeys(call.step_keys)
        /\ Cardinality(AllStepKeys(call.step_keys)) =
              IF num_loss_particles = 1
              THEN 3 * num_stein_particles
              ELSE num_stein_particles * (1 + 3 * num_loss_particles)

====
